---- MODULE Spec2Model ----
(***************************************************************************)
(* img2txt: the response-normalisation pipeline (clean_json_string,        *)
(* parse_json_safely, ensure_required_fields, format_*,                    *)
(* parse_and_format_gemini_output) in its three copies (formatter.py,      *)
(* version-1/app.py, streamlit.py), and the Pinterest publish step         *)
(* (PinData, create_pin, upload_pin, upload_to_pinterest).                 *)
(*                                                                         *)
(* A Python str is a sequence of one-character strings, so that strip,     *)
(* startswith, replace, lower and json.loads are computed character by     *)
(* character.                                                              *)
(***************************************************************************)
EXTENDS Integers, Sequences, FiniteSets, TLC

VARIABLES
    \* ---- one sanitizer comparison (specification SpecSan)
    san_pc,         \* which of the two sanitizer runs are done
    san_text,       \* the text t
    san_fence,      \* the opening fence the text is wrapped in
    san_plain,      \* clean_json_string(t)
    san_wrapped,    \* clean_json_string(t wrapped in the fence)
    san_again,      \* clean_json_string(clean_json_string(t))
    \* ---- one call of parse_and_format_gemini_output (specification Spec)
    variant,        \* which copy runs: "formatter" | "v1" | "streamlit"
    pc,             \* the stage the call has reached
    raw,            \* output_str
    cleaned,        \* cleaned_str
    parsed,         \* parsed_data
    data,           \* data (the projected mapping)
    result,         \* the value the call returns
    \* ---- one publish attempt (specification SpecPin)
    caller,         \* who publishes: "main" | "v1" | "streamlit" | "api"
    image_file,     \* what the file system holds at the image path
    env,            \* PINTEREST_BOARD_ID and PINTEREST_ACCESS_TOKEN
    pin_pc,         \* position inside upload_to_pinterest / create_pin
    formatted_data, \* the FormattedPost handed to upload_to_pinterest
    pin_args,       \* the arguments create_pin was called with
    pin_data,       \* the PinData instance, once constructed
    pin_errors,     \* the errors of the ValidationError, once raised
    requests,       \* the HTTP requests issued to the Pinterest API
    returned,       \* what the publish call returned
    \* ---- concurrent calls of the pipeline (specification SpecPar)
    calls,          \* the local variables of each call
    stdout,         \* the diagnostics printed, in order
    \* ---- the Streamlit sessions (specifications SpecUi, SpecShared)
    uploaded_file,  \* the image each session's file uploader holds
    session_state,  \* st.session_state of each session
    script,         \* where each session's script run stands
    uploaded_image, \* the image the file uploaded_image.jpg holds
    sent            \* what each session's latest script run sent out

sanVars == <<san_pc, san_text, san_fence, san_plain, san_wrapped,
             san_again>>
pipeVars == <<variant, pc, raw, cleaned, parsed, data, result>>
pinVars == <<caller, image_file, env, pin_pc, formatted_data, pin_args,
             pin_data, pin_errors, requests, returned>>
parVars == <<calls, stdout>>
uiVars == <<uploaded_file, session_state, script, uploaded_image, sent>>
vars == <<san_pc, san_text, san_fence, san_plain, san_wrapped, san_again,
          variant, pc, raw, cleaned, parsed, data, result,
          caller, image_file, env, pin_pc, formatted_data, pin_args,
          pin_data, pin_errors, requests, returned, calls, stdout,
          uploaded_file, session_state, script, uploaded_image, sent>>

----------------------------------------------------------------------------
(* Python str operations *)

\* the characters str.strip() removes
WHITESPACE == {" ", "\t", "\n", "\r", "\f"}

RECURSIVE FirstNonSpace(_, _)
FirstNonSpace(s, i) ==
    IF i > Len(s) THEN i
    ELSE IF s[i] \in WHITESPACE THEN FirstNonSpace(s, i + 1) ELSE i

RECURSIVE LastNonSpace(_, _)
LastNonSpace(s, i) ==
    IF i < 1 THEN i
    ELSE IF s[i] \in WHITESPACE THEN LastNonSpace(s, i - 1) ELSE i

\* s.strip()
strip(s) == SubSeq(s, FirstNonSpace(s, 1), LastNonSpace(s, Len(s)))

\* s[i:i+len(m)] == m
MatchAt(s, i, m) ==
    /\ i + Len(m) - 1 <= Len(s)
    /\ \A k \in 1..Len(m) : s[i + k - 1] = m[k]

\* s.startswith(m), s.endswith(m)
startswith(s, m) == MatchAt(s, 1, m)
endswith(s, m) == Len(s) >= Len(m) /\ MatchAt(s, Len(s) - Len(m) + 1, m)

\* s.find(old, i): the first index >= i where old occurs, 0 if none
find(s, old, i) ==
    LET hits == {k \in i..(Len(s) - Len(old) + 1) : MatchAt(s, k, old)}
    IN  IF hits = {} THEN 0 ELSE CHOOSE k \in hits : \A j \in hits : k <= j

\* s.replace(old, new): every non-overlapping occurrence, left to right
RECURSIVE ReplaceFrom(_, _, _, _)
ReplaceFrom(s, old, new, i) ==
    LET m == find(s, old, i) IN
    IF m = 0 THEN SubSeq(s, i, Len(s))
    ELSE SubSeq(s, i, m - 1) \o new \o ReplaceFrom(s, old, new, m + Len(old))

replace(s, old, new) == ReplaceFrom(s, old, new, 1)

UPPER ==
    <<"A", "B", "C", "D", "E", "F", "G", "H", "I", "J", "K", "L", "M",
      "N", "O", "P", "Q", "R", "S", "T", "U", "V", "W", "X", "Y", "Z">>
LOWER ==
    <<"a", "b", "c", "d", "e", "f", "g", "h", "i", "j", "k", "l", "m",
      "n", "o", "p", "q", "r", "s", "t", "u", "v", "w", "x", "y", "z">>

LowerChar(c) ==
    IF \E k \in 1..Len(UPPER) : UPPER[k] = c
    THEN LOWER[CHOOSE k \in 1..Len(UPPER) : UPPER[k] = c]
    ELSE c

\* s.lower()
lower(s) == [i \in 1..Len(s) |-> LowerChar(s[i])]

----------------------------------------------------------------------------
(* Text Sanitizer *)

\* the backquote character (a string literal cannot hold one)
BQ == "BACKQUOTE"

MARKER_JSON == <<BQ, BQ, BQ, "j", "s", "o", "n">>
MARKER == <<BQ, BQ, BQ>>

\* the markers, in the order the loop tries them
MARKERS == <<MARKER_JSON, MARKER>>

\* one pass of the loop body: the marker is cut from the start, then from the end
StripMarker(c, marker) ==
    LET c1 == IF startswith(c, marker)
              THEN SubSeq(c, Len(marker) + 1, Len(c)) ELSE c
    IN  IF endswith(c1, marker)
        THEN SubSeq(c1, 1, Len(c1) - Len(marker)) ELSE c1

RECURSIVE StripMarkers(_, _)
StripMarkers(c, i) ==
    IF i > Len(MARKERS) THEN c
    ELSE StripMarkers(StripMarker(c, MARKERS[i]), i + 1)

NoTrailingCommaFix(json_str) ==
    strip(StripMarkers(strip(json_str), 1))

OnlyOpeningFence(json_str) ==
    LET c == strip(json_str)
        c1 == IF startswith(c, MARKER_JSON)
              THEN SubSeq(c, Len(MARKER_JSON) + 1, Len(c))
              ELSE IF startswith(c, MARKER)
                   THEN SubSeq(c, Len(MARKER) + 1, Len(c)) ELSE c
    IN  replace(replace(strip(c1), <<",", "\n", "}">>, <<"\n", "}">>),
                <<",", "\n", "]">>, <<"\n", "]">>)

KeepsWhitespace(json_str) ==
    LET unfenced == StripMarkers(json_str, 1)
    IN  replace(replace(unfenced, <<",", "\n", "}">>, <<"\n", "}">>),
                <<",", "\n", "]">>, <<"\n", "]">>)

DropsLanguageTag(json_str) ==
    LET stripped == strip(StripMarkers(strip(json_str), 1))
        fixed == replace(replace(stripped, <<",", "\n", "}">>, <<"\n", "}">>),
                         <<",", "\n", "]">>, <<"\n", "]">>)
    IN  IF startswith(fixed, <<"j", "s", "o", "n">>)
        THEN SubSeq(fixed, 5, Len(fixed)) ELSE fixed

clean_json_string(json_str) ==
    LET stripped == strip(StripMarkers(strip(json_str), 1))
    IN  replace(replace(stripped, <<",", "\n", "}">>, <<"\n", "}">>),
                <<",", "\n", "]">>, <<"\n", "]">>)

----------------------------------------------------------------------------
(* Python values: None, str, int, bool, list, dict.  One record shape for   *)
(* all of them; a list or dict keeps its entries in kv, in insertion order. *)

None == [t |-> "None", s |-> <<>>, n |-> 0, kv |-> <<>>]
Str(x) == [t |-> "str", s |-> x, n |-> 0, kv |-> <<>>]
PyInt(k) == [t |-> "int", s |-> <<>>, n |-> k, kv |-> <<>>]
Bool(b) == [t |-> "bool", s |-> <<>>, n |-> IF b THEN 1 ELSE 0, kv |-> <<>>]
List(items) == [t |-> "list", s |-> <<>>, n |-> 0, kv |-> items]
Dict(items) == [t |-> "dict", s |-> <<>>, n |-> 0, kv |-> items]
Item(k, v) == [k |-> k, v |-> v]
EmptyDict == Dict(<<>>)

\* bool(v)
Truthy(v) ==
    CASE v.t = "None" -> FALSE
      [] v.t = "str" -> v.s # <<>>
      [] v.t = "int" -> v.n # 0
      [] v.t = "bool" -> v.n = 1
      [] OTHER -> v.kv # <<>>

\* isinstance(v, dict)
IsDict(v) == v.t = "dict"

HasKey(d, key) == \E i \in 1..Len(d.kv) : d.kv[i].k = key

\* d.get(key, default)
GetOr(d, key, default) ==
    IF HasKey(d, key)
    THEN d.kv[CHOOSE i \in 1..Len(d.kv) : d.kv[i].k = key].v
    ELSE default

\* d.get(key)
Get(d, key) == GetOr(d, key, None)

Keys(d) == {d.kv[i].k : i \in 1..Len(d.kv)}

\* d[key] = v on the entries of a dict: a repeated key keeps its place
SetItem(items, key, v) ==
    IF \E i \in 1..Len(items) : items[i].k = key
    THEN [i \in 1..Len(items) |->
            IF items[i].k = key THEN Item(key, v) ELSE items[i]]
    ELSE Append(items, Item(key, v))

----------------------------------------------------------------------------
(* json.loads.  A parse returns [ok, v, i]: whether it succeeded, the value *)
(* and the index after it.  Numbers are the integers (the inputs carry no   *)
(* fraction or exponent); \b and \uXXXX escapes are not decoded.            *)

JSON_WS == {" ", "\t", "\n", "\r"}
DIGITS == <<"0", "1", "2", "3", "4", "5", "6", "7", "8", "9">>
CONTROL == {"\n", "\t", "\r", "\f"}

IsDigit(c) == \E k \in 1..Len(DIGITS) : DIGITS[k] = c
DigitVal(c) == (CHOOSE k \in 1..Len(DIGITS) : DIGITS[k] = c) - 1

Fail == [ok |-> FALSE, v |-> None, i |-> 0]
Ok(v, i) == [ok |-> TRUE, v |-> v, i |-> i]

RECURSIVE SkipWs(_, _)
SkipWs(s, i) ==
    IF i <= Len(s) /\ s[i] \in JSON_WS THEN SkipWs(s, i + 1) ELSE i

Unescape(c) ==
    CASE c = "n" -> "\n"
      [] c = "t" -> "\t"
      [] c = "r" -> "\r"
      [] c = "f" -> "\f"
      [] OTHER -> c

\* the body of a string literal, from the character after the opening quote
RECURSIVE ScanString(_, _, _)
ScanString(s, i, acc) ==
    IF i > Len(s) THEN Fail
    ELSE IF s[i] = "\"" THEN Ok(Str(acc), i + 1)
    ELSE IF s[i] \in CONTROL THEN Fail
    ELSE IF s[i] = "\\"
         THEN IF i + 1 <= Len(s)
                 /\ s[i + 1] \in {"\"", "\\", "/", "n", "t", "r", "f"}
              THEN ScanString(s, i + 2, Append(acc, Unescape(s[i + 1])))
              ELSE Fail
    ELSE ScanString(s, i + 1, Append(acc, s[i]))

RECURSIVE ScanDigits(_, _, _)
ScanDigits(s, i, acc) ==
    IF i <= Len(s) /\ IsDigit(s[i])
    THEN ScanDigits(s, i + 1, 10 * acc + DigitVal(s[i]))
    ELSE Ok(PyInt(acc), i)

\* -?(0|[1-9][0-9]*)
ScanNumber(s, i) ==
    LET neg == s[i] = "-"
        j == IF neg THEN i + 1 ELSE i
    IN  IF j > Len(s) \/ ~IsDigit(s[j]) THEN Fail
        ELSE LET r == IF s[j] = "0" THEN Ok(PyInt(0), j + 1)
                      ELSE ScanDigits(s, j, 0)
             IN  Ok(PyInt(IF neg THEN 0 - r.v.n ELSE r.v.n), r.i)

RECURSIVE ScanValue(_, _)
RECURSIVE ScanMembers(_, _, _)
RECURSIVE ScanElements(_, _, _)

\* after "{" or ",": "key" : value, then "," or "}"
ScanMembers(s, i, acc) ==
    LET j == SkipWs(s, i) IN
    IF j > Len(s) \/ s[j] # "\"" THEN Fail
    ELSE LET key == ScanString(s, j + 1, <<>>) IN
         IF ~key.ok THEN Fail
         ELSE LET c == SkipWs(s, key.i) IN
              IF c > Len(s) \/ s[c] # ":" THEN Fail
              ELSE LET val == ScanValue(s, SkipWs(s, c + 1)) IN
                   IF ~val.ok THEN Fail
                   ELSE LET e == SkipWs(s, val.i)
                            items == SetItem(acc, key.v.s, val.v)
                        IN  IF e > Len(s) THEN Fail
                            ELSE IF s[e] = "}" THEN Ok(Dict(items), e + 1)
                            ELSE IF s[e] = "," THEN ScanMembers(s, e + 1, items)
                            ELSE Fail

\* after "[" or ",": value, then "," or "]"
ScanElements(s, i, acc) ==
    LET val == ScanValue(s, SkipWs(s, i)) IN
    IF ~val.ok THEN Fail
    ELSE LET e == SkipWs(s, val.i)
             items == Append(acc, Item(<<>>, val.v))
         IN  IF e > Len(s) THEN Fail
             ELSE IF s[e] = "]" THEN Ok(List(items), e + 1)
             ELSE IF s[e] = "," THEN ScanElements(s, e + 1, items)
             ELSE Fail

ScanValue(s, i) ==
    IF i > Len(s) THEN Fail
    ELSE IF s[i] = "\"" THEN ScanString(s, i + 1, <<>>)
    ELSE IF s[i] = "{"
         THEN LET j == SkipWs(s, i + 1) IN
              IF j <= Len(s) /\ s[j] = "}" THEN Ok(EmptyDict, j + 1)
              ELSE ScanMembers(s, i + 1, <<>>)
    ELSE IF s[i] = "["
         THEN LET j == SkipWs(s, i + 1) IN
              IF j <= Len(s) /\ s[j] = "]" THEN Ok(List(<<>>), j + 1)
              ELSE ScanElements(s, i + 1, <<>>)
    ELSE IF MatchAt(s, i, <<"n", "u", "l", "l">>) THEN Ok(None, i + 4)
    ELSE IF MatchAt(s, i, <<"t", "r", "u", "e">>) THEN Ok(Bool(TRUE), i + 4)
    ELSE IF MatchAt(s, i, <<"f", "a", "l", "s", "e">>)
         THEN Ok(Bool(FALSE), i + 5)
    ELSE IF s[i] = "-" \/ IsDigit(s[i]) THEN ScanNumber(s, i)
    ELSE Fail

\* json.loads(s): [ok |-> FALSE] stands for json.JSONDecodeError
json_loads(s) ==
    LET r == ScanValue(s, SkipWs(s, 1)) IN
    IF r.ok /\ SkipWs(s, r.i) > Len(s) THEN r ELSE Fail

----------------------------------------------------------------------------
(* Constants of the pipeline *)

K_title ==
    <<"t", "i", "t", "l", "e">>
K_malayalam ==
    <<"e", "x", "t", "r", "a", "c", "t", "e", "d", "_", "b", "i", "b", "l",
      "e", "_", "v", "e", "r", "s", "e", "_", "m", "a", "l", "a", "y", "a",
      "l", "a", "m">>
K_english ==
    <<"b", "i", "b", "l", "e", "_", "v", "e", "r", "s", "e", "_", "e", "n",
      "g", "l", "i", "s", "h", "_", "t", "r", "a", "n", "s", "l", "a", "t",
      "i", "o", "n">>
K_alt ==
    <<"a", "l", "t", "e", "r", "n", "a", "t", "i", "v", "e", "_", "t", "e",
      "x", "t", "_", "f", "o", "r", "_", "m", "a", "i", "n", "_", "c", "o",
      "n", "t", "e", "n", "t">>
K_confidence ==
    <<"c", "o", "n", "f", "i", "d", "e", "n", "c", "e", "_", "l", "e", "v",
      "e", "l">>
K_description ==
    <<"d", "e", "s", "c", "r", "i", "p", "t", "i", "o", "n">>
K_alt_text ==
    <<"a", "l", "t", "_", "t", "e", "x", "t">>

\* formatter.py
REQUIRED_KEYS == <<K_title, K_malayalam, K_english, K_alt>>
\* version-1/app.py
REQUIRED_KEYS_v1 == <<K_title, K_malayalam, K_english, K_alt, K_confidence>>
\* streamlit.py
REQUIRED_KEYS_st == <<K_title, K_malayalam, K_english, K_alt, K_confidence>>

DEFAULT_TITLE ==
    <<"T", "r", "i", "n", "i", "t", "y", " ", "C", "a", "t", "h", "o", "l",
      "i", "c", " ", "M", "e", "d", "i", "a">>
DEFAULT_DESCRIPTION ==
    <<"S", "t", "a", "y", " ", "i", "n", "s", "p", "i", "r", "e", "d", " ",
      "d", "a", "i", "l", "y", "!", " ", "F", "o", "l", "l", "o", "w", " ",
      "o", "u", "r", " ", "W", "h", "a", "t", "s", "A", "p", "p", " ", "c",
      "h", "a", "n", "n", "e", "l", " ", "f", "o", "r", " ", "t", "h", "e",
      " ", "l", "a", "t", "e", "s", "t", " ", "B", "i", "b", "l", "e", " ",
      "v", "e", "r", "s", "e", "s", ":", " ", "h", "t", "t", "p", "s", ":",
      "/", "/", "w", "h", "a", "t", "s", "a", "p", "p", ".", "c", "o", "m",
      "/", "c", "h", "a", "n", "n", "e", "l", "/", "0", "0", "2", "9", "V",
      "b", "A", "h", "L", "i", "s", "0", "r", "G", "i", "V", "Q", "d", "0",
      "H", "S", "w", "0", "3">>
WHATSAPP_LINK ==
    <<"\n", "\n", "S", "t", "a", "y", " ", "i", "n", "s", "p", "i", "r", "e",
      "d", " ", "d", "a", "i", "l", "y", "!", " ", "F", "o", "l", "l", "o",
      "w", " ", "o", "u", "r", " ", "W", "h", "a", "t", "s", "A", "p", "p",
      " ", "c", "h", "a", "n", "n", "e", "l", " ", "f", "o", "r", " ", "t",
      "h", "e", " ", "l", "a", "t", "e", "s", "t", " ", "B", "i", "b", "l",
      "e", " ", "v", "e", "r", "s", "e", "s", ":", " ", "h", "t", "t", "p",
      "s", ":", "/", "/", "w", "h", "a", "t", "s", "a", "p", "p", ".", "c",
      "o", "m", "/", "c", "h", "a", "n", "n", "e", "l", "/", "0", "0", "2",
      "9", "V", "b", "A", "h", "L", "i", "s", "0", "r", "G", "i", "V", "Q",
      "d", "0", "H", "S", "w", "0", "3">>
\* the literal text of the f-strings
TITLE_SUFFIX ==
    <<" ", "|", " ", "T", "r", "i", "n", "i", "t", "y", " ", "C", "a", "t",
      "h", "o", "l", "i", "c", " ", "M", "e", "d", "i", "a">>
ENGLISH_PREFIX ==
    <<"\n", "\n", "E", "n", "g", "l", "i", "s", "h", ":", " ">>
LOW ==
    <<"l", "o", "w">>

----------------------------------------------------------------------------
(* Structured Parser and Field Projector *)

\* parse_json_safely(json_str, original_str): original_str is only printed
parse_json_safely(json_str, original_str) ==
    LET r == json_loads(json_str) IN IF r.ok THEN r.v ELSE None

\* {key: data.get(key) for key in keys}
Projection(d, keys) ==
    Dict([i \in 1..Len(keys) |-> Item(keys[i], Get(d, keys[i]))])

ensure_required_fields(d) ==
    IF ~IsDict(d) THEN EmptyDict ELSE Projection(d, REQUIRED_KEYS)

ensure_required_fields_v1(d) ==
    IF IsDict(d) THEN Projection(d, REQUIRED_KEYS_v1) ELSE EmptyDict

ensure_required_fields_st(d) ==
    IF IsDict(d) THEN Projection(d, REQUIRED_KEYS_st) ELSE EmptyDict

----------------------------------------------------------------------------
(* Content Formatter.  Raised stands for the AttributeError of a string     *)
(* method called on a value that is not a str.                              *)

Raised == [t |-> "raise", s |-> <<>>, n |-> 0, kv |-> <<>>]

\* v.strip(), v.lower()
StripOf(v) == IF v.t = "str" THEN Str(strip(v.s)) ELSE Raised
LowerOf(v) == IF v.t = "str" THEN Str(lower(v.s)) ELSE Raised

\* f"{a}{b}": a raise inside a replacement field propagates
Concat(a, b) ==
    IF a = Raised \/ b = Raised THEN Raised ELSE Str(a.s \o b.s)

TitleEmptyWhenMissing(title) ==
    IF ~Truthy(title) THEN Str(<<>>)
    ELSE Concat(StripOf(title), Str(TITLE_SUFFIX))

format_title(title) ==
    IF ~Truthy(title) THEN Str(DEFAULT_TITLE)
    ELSE Concat(StripOf(title), Str(TITLE_SUFFIX))

DescriptionNeedsOnlyOne(verse_malayalam, verse_english) ==
    IF ~Truthy(verse_malayalam) /\ ~Truthy(verse_english)
    THEN Str(DEFAULT_DESCRIPTION)
    ELSE IF ~Truthy(verse_malayalam)
         THEN Concat(Str(ENGLISH_PREFIX),
                     Concat(StripOf(verse_english), Str(WHATSAPP_LINK)))
    ELSE IF ~Truthy(verse_english)
         THEN Concat(StripOf(verse_malayalam), Str(WHATSAPP_LINK))
    ELSE Concat(StripOf(verse_malayalam),
                Concat(Str(ENGLISH_PREFIX),
                       Concat(StripOf(verse_english), Str(WHATSAPP_LINK))))

format_description(verse_malayalam, verse_english) ==
    IF ~Truthy(verse_malayalam) \/ ~Truthy(verse_english)
    THEN Str(DEFAULT_DESCRIPTION)
    ELSE Concat(StripOf(verse_malayalam),
                Concat(Str(ENGLISH_PREFIX),
                       Concat(StripOf(verse_english), Str(WHATSAPP_LINK))))

AltTextIgnoresType(alt_text) ==
    IF ~Truthy(alt_text) \/ alt_text.t # "str" THEN Str(<<>>)
    ELSE StripOf(alt_text)

format_alt_text(alt_text) ==
    IF ~Truthy(alt_text) THEN Str(<<>>) ELSE StripOf(alt_text)

\* the dict display inside try: any raise is caught and {} returned
TryDict(items) ==
    IF \E i \in 1..Len(items) : items[i].v = Raised
    THEN EmptyDict ELSE Dict(items)

\* formatter.py, lines 99-110
FormatRecord(d) ==
    TryDict(<<Item(K_title, format_title(Get(d, K_title))),
              Item(K_description,
                   format_description(Get(d, K_malayalam),
                                      Get(d, K_english))),
              Item(K_alt_text, format_alt_text(Get(d, K_alt)))>>)

ConfidenceNotLowered(d) ==
    TryDict(<<Item(K_title, format_title(Get(d, K_title))),
              Item(K_description,
                   format_description(Get(d, K_malayalam),
                                      Get(d, K_english))),
              Item(K_alt_text, format_alt_text(Get(d, K_alt))),
              Item(K_confidence,
                   LET c == GetOr(d, K_confidence, Str(LOW))
                   IN  IF c.t = "str" THEN c ELSE Raised)>>)

\* version-1/app.py, lines 158-170
FormatRecord_v1(d) ==
    TryDict(<<Item(K_title, format_title(Get(d, K_title))),
              Item(K_description,
                   format_description(Get(d, K_malayalam),
                                      Get(d, K_english))),
              Item(K_alt_text, format_alt_text(Get(d, K_alt))),
              Item(K_confidence,
                   LowerOf(GetOr(d, K_confidence, Str(LOW))))>>)

\* a record whose confidence_level keeps the case it arrived in
KeepsConfidenceCase(d) ==
    TryDict(<<Item(K_title, format_title(Get(d, K_title))),
              Item(K_description,
                   format_description(Get(d, K_malayalam),
                                      Get(d, K_english))),
              Item(K_alt_text, format_alt_text(Get(d, K_alt))),
              Item(K_confidence, GetOr(d, K_confidence, Str(LOW)))>>)

\* streamlit.py, lines 117-129
FormatRecord_st(d) ==
    TryDict(<<Item(K_title, format_title(Get(d, K_title))),
              Item(K_description,
                   format_description(Get(d, K_malayalam),
                                      Get(d, K_english))),
              Item(K_alt_text, format_alt_text(Get(d, K_alt))),
              Item(K_confidence,
                   LowerOf(GetOr(d, K_confidence, Str(LOW))))>>)

parse_and_format_gemini_output(output_str) ==
    IF output_str = <<>> THEN EmptyDict
    ELSE LET parsed_data ==
                 parse_json_safely(clean_json_string(output_str), output_str)
         IN  IF ~Truthy(parsed_data) THEN EmptyDict
             ELSE FormatRecord(ensure_required_fields(parsed_data))

parse_and_format_gemini_output_v1(output_str) ==
    IF output_str = <<>> THEN EmptyDict
    ELSE LET parsed_data ==
                 parse_json_safely(clean_json_string(output_str), output_str)
         IN  IF ~Truthy(parsed_data) THEN EmptyDict
             ELSE FormatRecord_v1(ensure_required_fields_v1(parsed_data))

parse_and_format_gemini_output_st(output_str) ==
    IF output_str = <<>> THEN EmptyDict
    ELSE LET parsed_data ==
                 parse_json_safely(clean_json_string(output_str), output_str)
         IN  IF ~Truthy(parsed_data) THEN EmptyDict
             ELSE FormatRecord_st(ensure_required_fields_st(parsed_data))

----------------------------------------------------------------------------
(* The model's answers the pipeline is run on.  An answer is rendered the   *)
(* way json.dumps writes it, so that the pipeline decodes it itself.        *)

Absent == [t |-> "absent", s |-> <<>>, n |-> 0, kv |-> <<>>]

K_contains ==
    <<"c", "o", "n", "t", "a", "i", "n", "s", "_", "m", "a", "l", "a", "y",
      "a", "l", "a", "m">>
K_notes ==
    <<"n", "o", "t", "e", "s">>

EscapeChar(c) ==
    CASE c = "\n" -> <<"\\", "n">>
      [] c = "\t" -> <<"\\", "t">>
      [] c = "\"" -> <<"\\", "\"">>
      [] c = "\\" -> <<"\\", "\\">>
      [] OTHER -> <<c>>

RECURSIVE Escape(_)
Escape(s) == IF s = <<>> THEN <<>> ELSE EscapeChar(Head(s)) \o Escape(Tail(s))

Quote(s) == <<"\"">> \o Escape(s) \o <<"\"">>

RECURSIVE Render(_)
RECURSIVE RenderItems(_, _)
Render(v) ==
    CASE v.t = "None" -> <<"n", "u", "l", "l">>
      [] v.t = "str" -> Quote(v.s)
      [] v.t = "int" -> <<DIGITS[v.n + 1]>>
      [] v.t = "bool" -> IF v.n = 1 THEN <<"t", "r", "u", "e">>
                         ELSE <<"f", "a", "l", "s", "e">>
      [] v.t = "list" -> <<"[">> \o RenderItems(v.kv, FALSE) \o <<"]">>
      [] OTHER -> <<"{">> \o RenderItems(v.kv, TRUE) \o <<"}">>
RenderItems(items, keyed) ==
    IF items = <<>> THEN <<>>
    ELSE (IF keyed THEN Quote(Head(items).k) \o <<":", " ">> ELSE <<>>)
         \o Render(Head(items).v)
         \o (IF Len(items) > 1 THEN <<",", " ">> ELSE <<>>)
         \o RenderItems(Tail(items), keyed)

\* the object holding the fields that are not Absent
Answer(items) == Dict(SelectSeq(items, LAMBDA it : it.v # Absent))

TitleValues ==
    {Absent, None, Str(<<" ">>), Str(<<" ", "J", "n", " ", "3", ":", "1">>),
     Bool(TRUE)}
MalayalamValues ==
    {Absent, None, Str(<<>>), Str(<<" ">>), Str(<<"d", "a", "i", "\n">>)}
EnglishValues == {Absent, Str(<<>>), Str(<<" ", "G", "o", "d">>), PyInt(7)}
AltValues ==
    {Absent, Str(<<"a", "l", "t", " ">>), List(<<Item(<<>>, PyInt(1))>>)}
ConfidenceValues ==
    {Absent, None, Str(<<"H", "I", "G", "H">>),
     Str(<<"m", "e", "d", "i", "u", "m">>),
     Str(<<"b", "a", "n", "a", "n", "a">>), PyInt(3)}

Answers ==
    {Answer(<<Item(K_title, t), Item(K_malayalam, m), Item(K_english, e),
              Item(K_alt, a), Item(K_confidence, c)>>) :
        t \in TitleValues, m \in MalayalamValues, e \in EnglishValues,
        a \in AltValues, c \in ConfidenceValues}

\* answers that carry the two keys nothing downstream reads
AnswersWithNotes ==
    {Answer(<<Item(K_contains, Bool(b)), Item(K_title, t),
              Item(K_confidence, c), Item(K_notes, Str(<<"o", "k">>))>>) :
        b \in BOOLEAN, t \in {Absent, None, Str(<<"J">>)},
        c \in {Absent, None, Str(<<"L", "o", "w">>)}}

\* the spec's example: a fenced object with a trailing comma
EXAMPLE_RAW ==
    <<BQ, BQ, BQ, "j", "s", "o", "n", "\n", "{", "\"", "t", "i", "t", "l",
      "e", "\"", ":", " ", "\"", "J", "o", "h", "n", " ", "3", ":", "1", "6",
      "\"", ",", "\n", "}", "\n", BQ, BQ, BQ>>

\* answers that are not a JSON object, or not JSON at all
OtherRaws ==
    {<<>>, <<" ">>, <<"h", "i">>, <<"{">>, <<"{", "}">>, <<"[", "]">>,
     <<"[", "1", "]">>, <<"\"", "x", "\"">>, <<"\"", "\"">>, <<"7">>,
     <<"0">>, <<"t", "r", "u", "e">>, <<"f", "a", "l", "s", "e">>,
     <<"n", "u", "l", "l">>, <<"{", "\"", "a", "\"", ":", "1", ",", "}">>,
     <<"[", "1", ",", "\n", "]">>, EXAMPLE_RAW}

Fence(opening, text) == opening \o <<"\n">> \o text \o <<"\n">> \o MARKER

Raws ==
    {Render(o) : o \in Answers \cup AnswersWithNotes}
    \cup {Fence(MARKER_JSON, Render(o)) : o \in AnswersWithNotes}
    \cup OtherRaws
    \cup {Fence(MARKER, r) : r \in OtherRaws}

VARIANTS == {"formatter", "v1", "streamlit"}

----------------------------------------------------------------------------
(* One call of parse_and_format_gemini_output, stage by stage.              *)
(* pc: Start -> Sanitized -> Parsed | ParseFailed -> Projected ->           *)
(* Formatted | FormatFailed; Rejected is the early return on an empty       *)
(* input or a falsy decoded value.  Then the caller (main of main.py and    *)
(* of version-1/app.py, the processing step of streamlit.py): Skipped on    *)
(* an empty result, else Processed | Stored, and from Processed the         *)
(* confidence check: Crashed | Declined | Uploading.                        *)

NoValue == [t |-> "unset", s |-> <<>>, n |-> 0, kv |-> <<>>]

SanIdle ==
    /\ san_pc = {} /\ san_text = <<>> /\ san_fence = <<>>
    /\ san_plain = <<>> /\ san_wrapped = <<>> /\ san_again = <<>>

PipeIdle ==
    /\ variant = "none" /\ pc = "Idle" /\ raw = <<>> /\ cleaned = <<>>
    /\ parsed = NoValue /\ data = NoValue /\ result = NoValue

PinIdle ==
    /\ caller = "none" /\ image_file = "file"
    /\ env = [board |-> None, token |-> None]
    /\ pin_pc = "Idle" /\ formatted_data = NoValue
    /\ pin_args = NoValue /\ pin_data = NoValue /\ pin_errors = {}
    /\ requests = <<>> /\ returned = NoValue

ParIdle == calls = <<>> /\ stdout = <<>>

\* the Streamlit sessions open at once
MaxSessions == 2
SESSIONS == 1..MaxSessions

\* a script run that has sent nothing out
NoSend ==
    [kind |-> "none", image |-> "none", title |-> None,
     description |-> None, alt_text |-> None, ok |-> FALSE]

\* streamlit.py, main: the session state a new session starts with
NewSessionState ==
    [processed_data |-> None, processing_complete |-> FALSE,
     data_edited |-> FALSE]

UiIdle ==
    /\ uploaded_file = [i \in SESSIONS |-> "none"]
    /\ session_state = [i \in SESSIONS |-> NewSessionState]
    /\ script = [i \in SESSIONS |-> "idle"]
    /\ uploaded_image = "none"
    /\ sent = [i \in SESSIONS |-> NoSend]

Init ==
    /\ variant \in VARIANTS
    /\ raw \in Raws
    /\ pc = "Start"
    /\ cleaned = <<>>
    /\ parsed = NoValue
    /\ data = NoValue
    /\ result = NoValue
    /\ SanIdle
    /\ PinIdle
    /\ ParIdle
    /\ UiIdle

\* if not output_str: return {}
RejectEmptyInput ==
    /\ pc = "Start"
    /\ raw = <<>>
    /\ pc' = "Rejected"
    /\ result' = EmptyDict
    /\ UNCHANGED <<variant, raw, cleaned, parsed, data>>

\* cleaned_str = clean_json_string(output_str)
Sanitize ==
    /\ pc = "Start"
    /\ raw # <<>>
    /\ cleaned' = clean_json_string(raw)
    /\ pc' = "Sanitized"
    /\ UNCHANGED <<variant, raw, parsed, data, result>>

\* parsed_data = parse_json_safely(cleaned_str, output_str): decoded
ParseOk ==
    /\ pc = "Sanitized"
    /\ json_loads(cleaned).ok
    /\ parsed' = parse_json_safely(cleaned, raw)
    /\ pc' = "Parsed"
    /\ UNCHANGED <<variant, raw, cleaned, data, result>>

\* ... JSONDecodeError: parsed_data is None and the call returns {}
ParseFail ==
    /\ pc = "Sanitized"
    /\ ~json_loads(cleaned).ok
    /\ parsed' = parse_json_safely(cleaned, raw)
    /\ pc' = "ParseFailed"
    /\ result' = EmptyDict
    /\ UNCHANGED <<variant, raw, cleaned, data>>

\* if not parsed_data: return {}   (a decoded value that is falsy)
RejectFalsy ==
    /\ pc = "Parsed"
    /\ ~Truthy(parsed)
    /\ pc' = "Rejected"
    /\ result' = EmptyDict
    /\ UNCHANGED <<variant, raw, cleaned, parsed, data>>

\* the projection is computed but the call does not move on
ProjectStalls ==
    /\ pc = "Parsed"
    /\ Truthy(parsed)
    /\ data' = CASE variant = "formatter" -> ensure_required_fields(parsed)
                 [] variant = "v1" -> ensure_required_fields_v1(parsed)
                 [] OTHER -> ensure_required_fields_st(parsed)
    /\ UNCHANGED <<variant, pc, raw, cleaned, parsed, result>>

\* data = ensure_required_fields(parsed_data)
Project ==
    /\ pc = "Parsed"
    /\ Truthy(parsed)
    /\ data' = CASE variant = "formatter" -> ensure_required_fields(parsed)
                 [] variant = "v1" -> ensure_required_fields_v1(parsed)
                 [] OTHER -> ensure_required_fields_st(parsed)
    /\ pc' = "Projected"
    /\ UNCHANGED <<variant, raw, cleaned, parsed, result>>

\* try: return {...} except Exception: return {}
Format ==
    /\ pc = "Projected"
    /\ result' = CASE variant = "formatter" -> FormatRecord(data)
                   [] variant = "v1" -> FormatRecord_v1(data)
                   [] OTHER -> FormatRecord_st(data)
    /\ pc' = IF result' = EmptyDict THEN "FormatFailed" ELSE "Formatted"
    /\ UNCHANGED <<variant, raw, cleaned, parsed, data>>

pinRest ==
    <<caller, image_file, env, pin_args, pin_data, pin_errors, requests,
      returned>>

HIGH == <<"h", "i", "g", "h">>

\* process_gemini_response returns the empty mapping as it is
PassesEmptyResultOn ==
    /\ pc \in {"Rejected", "ParseFailed", "FormatFailed"}
    /\ formatted_data' = result
    /\ pc' = "Processed"
    /\ UNCHANGED <<variant, raw, cleaned, parsed, data, result, pin_pc,
                   pinRest>>

\* the caller: if not formatted_data: return None, and main returns
\* (streamlit.py: st.stop())
SkipImage ==
    /\ pc \in {"Rejected", "ParseFailed", "FormatFailed"}
    /\ formatted_data' = IF variant = "streamlit" THEN result ELSE None
    /\ pc' = "Skipped"
    /\ UNCHANGED <<variant, raw, cleaned, parsed, data, result, pin_pc,
                   pinRest>>

\* the caller: return formatted_data (streamlit.py: store it in the session)
ReturnFormatted ==
    /\ pc = "Formatted"
    /\ formatted_data' = result
    /\ pc' = IF variant = "streamlit" THEN "Stored" ELSE "Processed"
    /\ UNCHANGED <<variant, raw, cleaned, parsed, data, result, pin_pc,
                   pinRest>>

\* main: formatted_data.get("confidence_level", "low") != "high"
NotHigh == GetOr(formatted_data, K_confidence, Str(LOW)) # Str(HIGH)

\* main: the warning reads formatted_data['confidence_level']: KeyError
ConfidenceKeyError ==
    /\ pc = "Processed"
    /\ NotHigh
    /\ ~HasKey(formatted_data, K_confidence)
    /\ pc' = "Crashed"
    /\ UNCHANGED <<variant, raw, cleaned, parsed, data, result, pin_pc,
                   formatted_data, pinRest>>

\* main: the operator does not answer y
OperatorDeclines ==
    /\ pc = "Processed"
    /\ NotHigh
    /\ HasKey(formatted_data, K_confidence)
    /\ pc' = "Declined"
    /\ UNCHANGED <<variant, raw, cleaned, parsed, data, result, pin_pc,
                   formatted_data, pinRest>>

\* main: upload_to_pinterest(image_path, formatted_data) is called
CallUpload ==
    /\ pc = "Processed"
    /\ NotHigh => HasKey(formatted_data, K_confidence)
    /\ pc' = "Uploading"
    /\ pin_pc' = "Call"
    /\ UNCHANGED <<variant, raw, cleaned, parsed, data, result,
                   formatted_data, pinRest>>

Next ==
    \/ RejectEmptyInput
         /\ UNCHANGED sanVars /\ UNCHANGED pinVars /\ UNCHANGED parVars
         /\ UNCHANGED uiVars
    \/ Sanitize /\ UNCHANGED sanVars /\ UNCHANGED pinVars /\ UNCHANGED parVars
         /\ UNCHANGED uiVars
    \/ ParseOk /\ UNCHANGED sanVars /\ UNCHANGED pinVars /\ UNCHANGED parVars
         /\ UNCHANGED uiVars
    \/ ParseFail /\ UNCHANGED sanVars /\ UNCHANGED pinVars /\ UNCHANGED parVars
         /\ UNCHANGED uiVars
    \/ RejectFalsy
         /\ UNCHANGED sanVars /\ UNCHANGED pinVars /\ UNCHANGED parVars
         /\ UNCHANGED uiVars
    \/ Project /\ UNCHANGED sanVars /\ UNCHANGED pinVars /\ UNCHANGED parVars
         /\ UNCHANGED uiVars
    \/ Format /\ UNCHANGED sanVars /\ UNCHANGED pinVars /\ UNCHANGED parVars
         /\ UNCHANGED uiVars
    \/ SkipImage /\ UNCHANGED sanVars /\ UNCHANGED parVars
         /\ UNCHANGED uiVars
    \/ ReturnFormatted /\ UNCHANGED sanVars /\ UNCHANGED parVars
         /\ UNCHANGED uiVars
    \/ ConfidenceKeyError /\ UNCHANGED sanVars /\ UNCHANGED parVars
         /\ UNCHANGED uiVars
    \/ OperatorDeclines /\ UNCHANGED sanVars /\ UNCHANGED parVars
         /\ UNCHANGED uiVars
    \/ CallUpload /\ UNCHANGED sanVars /\ UNCHANGED parVars
         /\ UNCHANGED uiVars

Spec == Init /\ [][Next]_vars

\* the stages at which a statement of parse_and_format_gemini_output is
\* still to run
RUNNING == {"Start", "Sanitized", "Parsed", "Projected"}

\* the call advances to its next stage.  The function is straight-line code
\* that waits for nothing, so a call that has started runs to its return.
Advance == pc \in RUNNING /\ pc' \in {"Sanitized", "Parsed", "ParseFailed",
                                      "Rejected", "Projected", "Formatted",
                                      "FormatFailed"}

SpecLive == Spec /\ WF_pc(Advance)

\* the stage-wise run returns what the function returns
StagesAgree ==
    result # NoValue =>
        result = CASE variant = "formatter" ->
                          parse_and_format_gemini_output(raw)
                   [] variant = "v1" -> parse_and_format_gemini_output_v1(raw)
                   [] OTHER -> parse_and_format_gemini_output_st(raw)

----------------------------------------------------------------------------
(* The sanitizer on a text and on the same text wrapped in a fence          *)
(* (specification SpecSan).                                                 *)

MaxPieces == 3

\* what the texts are put together from
PIECES ==
    {MARKER_JSON, MARKER, <<BQ>>, <<"j", "s", "o", "n">>, <<"\n">>, <<" ">>,
     <<",", "\n", "}">>, <<",", "\n", "]">>, <<",">>, <<"{">>, <<"x">>}

RECURSIVE Texts(_)
Texts(n) ==
    IF n = 0 THEN {<<>>}
    ELSE LET shorter == Texts(n - 1)
         IN  shorter \cup {t \o p : t \in shorter, p \in PIECES}

InitSan ==
    /\ san_pc = {}
    /\ san_text \in Texts(MaxPieces)
    /\ san_fence \in {MARKER_JSON, MARKER}
    /\ san_plain = <<>>
    /\ san_wrapped = <<>>
    /\ san_again = <<>>
    /\ PipeIdle
    /\ PinIdle
    /\ ParIdle
    /\ UiIdle

CleanPlain ==
    /\ "plain" \notin san_pc
    /\ san_plain' = clean_json_string(san_text)
    /\ san_pc' = san_pc \cup {"plain"}
    /\ UNCHANGED <<san_text, san_fence, san_wrapped, san_again>>

CleanWrapped ==
    /\ "wrapped" \notin san_pc
    /\ san_wrapped' = clean_json_string(Fence(san_fence, san_text))
    /\ san_pc' = san_pc \cup {"wrapped"}
    /\ UNCHANGED <<san_text, san_fence, san_plain, san_again>>

\* the sanitizer on its own output
CleanAgain ==
    /\ "plain" \in san_pc
    /\ "again" \notin san_pc
    /\ san_again' = clean_json_string(san_plain)
    /\ san_pc' = san_pc \cup {"again"}
    /\ UNCHANGED <<san_text, san_fence, san_plain, san_wrapped>>

NextSan ==
    \/ CleanPlain
         /\ UNCHANGED pipeVars /\ UNCHANGED pinVars /\ UNCHANGED parVars
         /\ UNCHANGED uiVars
    \/ CleanWrapped
         /\ UNCHANGED pipeVars /\ UNCHANGED pinVars /\ UNCHANGED parVars
         /\ UNCHANGED uiVars
    \/ CleanAgain
         /\ UNCHANGED pipeVars /\ UNCHANGED pinVars /\ UNCHANGED parVars
         /\ UNCHANGED uiVars

SpecSan == InitSan /\ [][NextSan]_vars

----------------------------------------------------------------------------
(* Record Validator: PinData, a pydantic model.  Every field is validated   *)
(* and the errors of all fields are collected; the mode='after' model       *)
(* validator runs only when no field failed, and raises at its first        *)
(* violation.  An error is [loc, msg].                                      *)

MaxTags == 20

MSG_NOT_FOUND == "Image file not found"
MSG_NOT_FILE == "Path is not a file"
MSG_UNREADABLE == "Cannot read image file"
MSG_EMPTY == "Field cannot be empty"
MSG_STRING_TYPE == "Input should be a valid string"
MSG_TOO_MANY_TAGS == "Too many tags (max 20)"
MSG_EMPTY_TAG == "Tags cannot be empty"

Error(loc, msg) == [loc |-> loc, msg |-> msg]

ImagePathUnchecked(file) == {}

\* validate_image_path(cls, v), given what the file system holds at v
validate_image_path(file) ==
    CASE file = "missing" -> {MSG_NOT_FOUND}
      [] file = "directory" -> {MSG_NOT_FILE}
      [] file = "unreadable" -> {MSG_UNREADABLE}
      [] OTHER -> {}

AcceptsBlank(v) == IF v.s = <<>> THEN {MSG_EMPTY} ELSE {}

\* validate_not_empty(cls, v): the messages raised; it returns v.strip()
validate_not_empty(v) ==
    IF v.s = <<>> \/ strip(v.s) = <<>> THEN {MSG_EMPTY} ELSE {}

\* a str field: the type check, then the field validator
StrField(loc, v) ==
    IF v.t # "str" THEN {Error(loc, MSG_STRING_TYPE)}
    ELSE {Error(loc, m) : m \in validate_not_empty(v)}

NOT_EMPTY_FIELDS ==
    <<"board_id", "title", "description", "alt_text", "access_token">>

FieldErrors(args, file) ==
    UNION {StrField(NOT_EMPTY_FIELDS[i], args[NOT_EMPTY_FIELDS[i]]) :
              i \in 1..Len(NOT_EMPTY_FIELDS)}
    \cup {Error("image_path", m) : m \in validate_image_path(file)}

TagLimitOffByOne(tags) ==
    IF ~Truthy(tags) THEN {}
    ELSE IF Len(tags.kv) >= MaxTags THEN {MSG_TOO_MANY_TAGS}
    ELSE IF \E i \in 1..Len(tags.kv) : strip(tags.kv[i].v.s) = <<>>
         THEN {MSG_EMPTY_TAG}
    ELSE {}

\* validate_tags_content(self): the message it raises, if any
validate_tags_content(tags) ==
    IF ~Truthy(tags) THEN {}
    ELSE IF Len(tags.kv) > MaxTags THEN {MSG_TOO_MANY_TAGS}
    ELSE IF \E i \in 1..Len(tags.kv) : strip(tags.kv[i].v.s) = <<>>
         THEN {MSG_EMPTY_TAG}
    ELSE {}

\* the errors of the ValidationError PinData(**args) raises; {} if none
PinDataErrors(args, file) ==
    IF FieldErrors(args, file) # {} THEN FieldErrors(args, file)
    ELSE {Error("(model)", m) : m \in validate_tags_content(args.tags)}

\* the instance: the not-empty fields hold the validators' v.strip()
PinData(args) ==
    [board_id |-> Str(strip(args.board_id.s)),
     image_path |-> args.image_path,
     title |-> Str(strip(args.title.s)),
     description |-> Str(strip(args.description.s)),
     alt_text |-> Str(strip(args.alt_text.s)),
     tags |-> args.tags,
     access_token |-> Str(strip(args.access_token.s))]

----------------------------------------------------------------------------
(* One publish attempt (specification SpecPin): a call of                   *)
(* upload_to_pinterest (main.py, version-1/app.py, streamlit.py) or a       *)
(* direct call of create_pin (pinterest_api.py).                            *)

ExtraTags == 5

DEFAULT_IMAGE_PATH ==
    <<"t", "s", "t", ".", "j", "p", "g">>
UPLOADED_IMAGE_PATH ==
    <<"u", "p", "l", "o", "a", "d", "e", "d", "_", "i", "m", "a", "g", "e",
      ".", "j", "p", "g">>
TAG_BIBLE_QUOTES ==
    <<"b", "i", "b", "l", "e", " ", "q", "u", "o", "t", "e", "s">>
DEFAULT_TAGS == List(<<Item(<<>>, Str(TAG_BIBLE_QUOTES))>>)

REQUIRED_UPLOAD_FIELDS == <<K_title, K_description, K_alt_text>>

FILE_STATES == {"file", "missing", "directory", "unreadable"}

\* an environment variable: unset, empty or set
EnvValues == {None, Str(<<>>), Str(<<" ", "k", "1">>)}

\* the answers the posts to publish are formatted from
PinAnswers ==
    {Answer(<<Item(K_title, t), Item(K_malayalam, Str(<<"d">>)),
              Item(K_english, Str(<<"G">>)), Item(K_alt, a),
              Item(K_confidence, c)>>) :
        t \in {Absent, Str(<<" ">>), Str(<<"J">>)},
        a \in {Absent, Str(<<"a">>)},
        c \in {Str(<<"h", "i", "g", "h">>), Str(<<"l", "o", "w">>)}}

PostsOf(v) ==
    {CASE v = "main" -> parse_and_format_gemini_output(Render(o))
       [] v = "v1" -> parse_and_format_gemini_output_v1(Render(o))
       [] OTHER -> parse_and_format_gemini_output_st(Render(o)) :
        o \in PinAnswers} \ {EmptyDict}

\* tag lists of n tags, the one at position blank (if any) being blank
TagList(n, blank) ==
    List([i \in 1..n |->
            Item(<<>>, Str(IF i = blank THEN <<" ">> ELSE <<"t">>))])

TagLists ==
    {None, List(<<>>)}
    \cup {TagList(n, b) : n \in {1, MaxTags, MaxTags + 1, MaxTags + ExtraTags},
                          b \in {0, 1}}

\* a gate on the three texts alone
GateIgnoresConfidence(post) ==
    \A i \in 1..Len(REQUIRED_UPLOAD_FIELDS) :
        strip(Get(post, REQUIRED_UPLOAD_FIELDS[i]).s) # <<>>

\* streamlit.py shows the upload button only for a post that passes these
StreamlitGate(post) ==
    /\ Get(post, K_confidence).s \in {<<"h", "i", "g", "h">>,
                                      <<"m", "e", "d", "i", "u", "m">>}
    /\ \A i \in 1..Len(REQUIRED_UPLOAD_FIELDS) :
           strip(Get(post, REQUIRED_UPLOAD_FIELDS[i]).s) # <<>>

InitPin ==
    /\ caller \in {"main", "v1", "streamlit", "api"}
    /\ image_file \in FILE_STATES
    /\ env \in [board : EnvValues, token : EnvValues]
    /\ pin_pc = "Call"
    /\ IF caller = "api" THEN formatted_data = NoValue
       ELSE formatted_data \in PostsOf(caller)
    /\ caller = "streamlit" =>
           /\ StreamlitGate(formatted_data)
           /\ Truthy(env.board) /\ Truthy(env.token)
    /\ caller = "api" => env.board = None
    /\ pin_args = NoValue
    /\ pin_data = NoValue
    /\ pin_errors = {}
    /\ requests = <<>>
    /\ returned = NoValue
    /\ SanIdle
    /\ PipeIdle
    /\ ParIdle
    /\ UiIdle

pinFrame == <<caller, image_file, env, formatted_data>>

\* a check of the title alone
TitleOnlyRequired(post) == Truthy(Get(post, K_title))

\* upload_to_pinterest: all(formatted_data.get(field) for field in
\* required_fields)
AllRequired(post) ==
    \A i \in 1..Len(REQUIRED_UPLOAD_FIELDS) :
        Truthy(Get(post, REQUIRED_UPLOAD_FIELDS[i]))

\* upload_to_pinterest: a required field is missing, return False
RequiredMissing ==
    /\ pin_pc = "Call" /\ caller # "api"
    /\ ~AllRequired(formatted_data)
    /\ pin_pc' = "Done"
    /\ returned' = Bool(FALSE)
    /\ UNCHANGED <<pinFrame, pin_args, pin_data, pin_errors, requests>>

RequiredPresent ==
    /\ pin_pc = "Call" /\ caller # "api"
    /\ AllRequired(formatted_data)
    /\ pin_pc' = "Checked"
    /\ UNCHANGED <<pinFrame, pin_args, pin_data, pin_errors, requests,
                   returned>>

\* a or b
Or(a, b) == IF Truthy(a) THEN a ELSE b

\* main.py, upload_to_pinterest: the call of create_pin
CallCreatePin ==
    /\ pin_pc = "Checked" /\ caller = "main"
    /\ pin_args' = [board_id |-> env.board,
                    image_path |-> Str(DEFAULT_IMAGE_PATH),
                    title |-> Get(formatted_data, K_title),
                    description |-> Get(formatted_data, K_description),
                    alt_text |-> Get(formatted_data, K_alt_text),
                    tags |-> DEFAULT_TAGS,
                    access_token |-> Or(env.token, env.token)]
    /\ pin_pc' = "Construct"
    /\ UNCHANGED <<pinFrame, pin_data, pin_errors, requests, returned>>

\* pinterest_api.py, create_pin called directly
CallCreatePinDirect ==
    /\ pin_pc = "Call" /\ caller = "api"
    /\ \E board \in EnvValues,
          title \in {Str(<<>>), Str(<<" ">>), Str(<<"J", " ">>)},
          description \in {Str(<<" ">>), Str(<<"d">>)},
          alt \in {Str(<<>>), Str(<<"a">>)},
          tags \in TagLists, token \in EnvValues :
          pin_args' = [board_id |-> board,
                       image_path |-> Str(DEFAULT_IMAGE_PATH),
                       title |-> title,
                       description |-> description,
                       alt_text |-> alt,
                       tags |-> tags,
                       access_token |-> Or(token, env.token)]
    /\ pin_pc' = "Construct"
    /\ UNCHANGED <<pinFrame, pin_data, pin_errors, requests, returned>>

\* create_pin: PinData(...) raises ValidationError; create_pin returns None
ValidationFails ==
    /\ pin_pc = "Construct"
    /\ PinDataErrors(pin_args, image_file) # {}
    /\ pin_errors' = PinDataErrors(pin_args, image_file)
    /\ returned' = IF caller = "main" THEN Bool(FALSE) ELSE None
    /\ pin_pc' = "Done"
    /\ UNCHANGED <<pinFrame, pin_args, pin_data, requests>>

\* create_pin: pin_data = PinData(...)
ValidationPasses ==
    /\ pin_pc = "Construct"
    /\ PinDataErrors(pin_args, image_file) = {}
    /\ pin_data' = PinData(pin_args)
    /\ pin_pc' = "Validated"
    /\ UNCHANGED <<pinFrame, pin_args, pin_errors, requests, returned>>

Request(board, title, description, alt, token) ==
    [board_id |-> board, title |-> title, description |-> description,
     alt_text |-> alt, access_token |-> token]

\* upload_pin(pin_data): requests.post, then the response or None
UploadPin ==
    /\ pin_pc = "Validated"
    /\ requests' = Append(requests,
                          Request(pin_data.board_id, pin_data.title,
                                  pin_data.description, pin_data.alt_text,
                                  pin_data.access_token))
    /\ \E ok \in BOOLEAN :
           returned' = IF caller = "main" THEN Bool(ok)
                       ELSE IF ok THEN Str(<<"i", "d">>) ELSE None
    /\ pin_pc' = "Done"
    /\ UNCHANGED <<pinFrame, pin_args, pin_data, pin_errors>>

\* version-1/app.py, streamlit.py: open(image_path, "rb") raises
ReadImageFails ==
    /\ pin_pc = "Checked" /\ caller \in {"v1", "streamlit"}
    /\ image_file # "file"
    /\ returned' = Bool(FALSE)
    /\ pin_pc' = "Done"
    /\ UNCHANGED <<pinFrame, pin_args, pin_data, pin_errors, requests>>

\* ... or the image is read and encoded
ReadImage ==
    /\ pin_pc = "Checked" /\ caller \in {"v1", "streamlit"}
    /\ image_file = "file"
    /\ pin_pc' = "Encoded"
    /\ UNCHANGED <<pinFrame, pin_args, pin_data, pin_errors, requests,
                   returned>>

\* ... requests.post(...) with the fields of formatted_data as they are
PostPin ==
    /\ pin_pc = "Encoded"
    /\ requests' = Append(requests,
                          Request(env.board,
                                  Get(formatted_data, K_title),
                                  Get(formatted_data, K_description),
                                  Get(formatted_data, K_alt_text),
                                  env.token))
    /\ \E ok \in BOOLEAN : returned' = Bool(ok)
    /\ pin_pc' = "Done"
    /\ UNCHANGED <<pinFrame, pin_args, pin_data, pin_errors>>

NextPin ==
    \/ RequiredMissing
         /\ UNCHANGED sanVars /\ UNCHANGED pipeVars /\ UNCHANGED parVars
         /\ UNCHANGED uiVars
    \/ RequiredPresent
         /\ UNCHANGED sanVars /\ UNCHANGED pipeVars /\ UNCHANGED parVars
         /\ UNCHANGED uiVars
    \/ CallCreatePin
         /\ UNCHANGED sanVars /\ UNCHANGED pipeVars /\ UNCHANGED parVars
         /\ UNCHANGED uiVars
    \/ CallCreatePinDirect
         /\ UNCHANGED sanVars /\ UNCHANGED pipeVars /\ UNCHANGED parVars
         /\ UNCHANGED uiVars
    \/ ValidationFails
         /\ UNCHANGED sanVars /\ UNCHANGED pipeVars /\ UNCHANGED parVars
         /\ UNCHANGED uiVars
    \/ ValidationPasses
         /\ UNCHANGED sanVars /\ UNCHANGED pipeVars /\ UNCHANGED parVars
         /\ UNCHANGED uiVars
    \/ UploadPin
         /\ UNCHANGED sanVars /\ UNCHANGED pipeVars /\ UNCHANGED parVars
         /\ UNCHANGED uiVars
    \/ ReadImageFails
         /\ UNCHANGED sanVars /\ UNCHANGED pipeVars /\ UNCHANGED parVars
         /\ UNCHANGED uiVars
    \/ ReadImage
         /\ UNCHANGED sanVars /\ UNCHANGED pipeVars /\ UNCHANGED parVars
         /\ UNCHANGED uiVars
    \/ PostPin /\ UNCHANGED sanVars /\ UNCHANGED pipeVars /\ UNCHANGED parVars
         /\ UNCHANGED uiVars

SpecPin == InitPin /\ [][NextPin]_vars

----------------------------------------------------------------------------
(* Concurrent calls of parse_and_format_gemini_output (specification        *)
(* SpecPar).  Each call has its own output_str, cleaned_str, parsed_data    *)
(* and data; the module-level constants are only read; print writes to the  *)
(* one standard output.  A step is one statement of one call.               *)

MaxCalls == 2

CALLS == 1..MaxCalls

\* the answers the concurrent calls are given
PAR_RAWS ==
    {<<>>, <<"h", "i">>, <<"{", "}">>, EXAMPLE_RAW,
     Render(Answer(<<Item(K_title, Str(<<"J">>)),
                     Item(K_malayalam, Str(<<"d">>)),
                     Item(K_english, Str(<<"G">>)),
                     Item(K_confidence, Str(<<"H", "i", "g", "h">>))>>)),
     Render(Answer(<<Item(K_title, Bool(TRUE)),
                     Item(K_confidence, Str(<<"l", "o", "w">>))>>))}

MSG_PARSE == "Error parsing JSON"
MSG_FORMAT == "Error formatting output"

\* the local variables of a call that has just been entered
Entered(output_str) ==
    [pc |-> "Start", output_str |-> output_str, cleaned_str |-> <<>>,
     parsed_data |-> NoValue, data |-> NoValue, result |-> NoValue]

InitPar ==
    /\ variant \in VARIANTS
    /\ calls \in [CALLS -> {Entered(r) : r \in PAR_RAWS}]
    /\ stdout = <<>>
    /\ pc = "Idle" /\ raw = <<>> /\ cleaned = <<>>
    /\ parsed = NoValue /\ data = NoValue /\ result = NoValue
    /\ SanIdle
    /\ PinIdle
    /\ UiIdle

\* every call reads the locals of the first call
SharedLocal(i) == calls[1]

\* the local variables of call i
Local(i) == calls[i]

EnsureFor(v, d) ==
    CASE v = "formatter" -> ensure_required_fields(d)
      [] v = "v1" -> ensure_required_fields_v1(d)
      [] OTHER -> ensure_required_fields_st(d)

FormatFor(v, d) ==
    CASE v = "formatter" -> FormatRecord(d)
      [] v = "v1" -> FormatRecord_v1(d)
      [] OTHER -> FormatRecord_st(d)

\* if not output_str: return {}
ParRejectEmptyInput(i) ==
    /\ Local(i).pc = "Start"
    /\ Local(i).output_str = <<>>
    /\ calls' = [calls EXCEPT ![i].result = EmptyDict, ![i].pc = "Rejected"]
    /\ UNCHANGED stdout

\* cleaned_str = clean_json_string(output_str)
ParSanitize(i) ==
    /\ Local(i).pc = "Start"
    /\ Local(i).output_str # <<>>
    /\ calls' = [calls EXCEPT
                   ![i].cleaned_str = clean_json_string(Local(i).output_str),
                   ![i].pc = "Sanitized"]
    /\ UNCHANGED stdout

\* parsed_data = parse_json_safely(cleaned_str, output_str)
ParParseOk(i) ==
    /\ Local(i).pc = "Sanitized"
    /\ json_loads(Local(i).cleaned_str).ok
    /\ calls' = [calls EXCEPT
                   ![i].parsed_data =
                       parse_json_safely(Local(i).cleaned_str,
                                         Local(i).output_str),
                   ![i].pc = "Parsed"]
    /\ UNCHANGED stdout

\* ... JSONDecodeError: the error is printed and the call returns {}
ParParseFail(i) ==
    /\ Local(i).pc = "Sanitized"
    /\ ~json_loads(Local(i).cleaned_str).ok
    /\ calls' = [calls EXCEPT
                   ![i].parsed_data =
                       parse_json_safely(Local(i).cleaned_str,
                                         Local(i).output_str),
                   ![i].result = EmptyDict,
                   ![i].pc = "ParseFailed"]
    /\ stdout' = Append(stdout, [call |-> i, msg |-> MSG_PARSE])

\* if not parsed_data: return {}
ParRejectFalsy(i) ==
    /\ Local(i).pc = "Parsed"
    /\ ~Truthy(Local(i).parsed_data)
    /\ calls' = [calls EXCEPT ![i].result = EmptyDict, ![i].pc = "Rejected"]
    /\ UNCHANGED stdout

\* data = ensure_required_fields(parsed_data)
ParProject(i) ==
    /\ Local(i).pc = "Parsed"
    /\ Truthy(Local(i).parsed_data)
    /\ calls' = [calls EXCEPT
                   ![i].data = EnsureFor(variant, Local(i).parsed_data),
                   ![i].pc = "Projected"]
    /\ UNCHANGED stdout

\* try: return {...} except Exception: print, return {}
ParFormat(i) ==
    /\ Local(i).pc = "Projected"
    /\ LET r == FormatFor(variant, Local(i).data)
       IN  /\ calls' = [calls EXCEPT
                          ![i].result = r,
                          ![i].pc = IF r = EmptyDict THEN "FormatFailed"
                                    ELSE "Formatted"]
           /\ stdout' = IF r = EmptyDict
                        THEN Append(stdout, [call |-> i, msg |-> MSG_FORMAT])
                        ELSE stdout

parFrame == <<sanVars, pipeVars, pinVars, uiVars>>

NextPar ==
    \/ \E i \in CALLS : ParRejectEmptyInput(i) /\ UNCHANGED parFrame
    \/ \E i \in CALLS : ParSanitize(i) /\ UNCHANGED parFrame
    \/ \E i \in CALLS : ParParseOk(i) /\ UNCHANGED parFrame
    \/ \E i \in CALLS : ParParseFail(i) /\ UNCHANGED parFrame
    \/ \E i \in CALLS : ParRejectFalsy(i) /\ UNCHANGED parFrame
    \/ \E i \in CALLS : ParProject(i) /\ UNCHANGED parFrame
    \/ \E i \in CALLS : ParFormat(i) /\ UNCHANGED parFrame

SpecPar == InitPar /\ [][NextPar]_vars
-----------------------------------------------------------------------------
(***************************************************************************)
(* The Streamlit application (streamlit.py, main).  Every interaction of   *)
(* an operator reruns the script of that operator's session from the top:  *)
(* the run first saves the uploaded image to the one path                  *)
(* uploaded_image.jpg, then serves the button that was pressed.  The       *)
(* script runs of different sessions run in different threads of one       *)
(* server process and share its working directory.                         *)
(***************************************************************************)

IMAGES == {"imgA", "imgB"}

MEDIUM == <<"m", "e", "d", "i", "u", "m">>

\* the answers the model gives in a session on its own
UI_ANSWERS ==
    {Render(Answer(<<Item(K_title, Str(<<"J">>)),
                     Item(K_malayalam, Str(<<"d">>)),
                     Item(K_english, Str(<<"G">>)), Item(K_alt, a),
                     Item(K_confidence, Str(c))>>)) :
        a \in {Absent, Str(<<"a">>)}, c \in {HIGH, MEDIUM, LOW}}
    \cup {<<"7">>, <<>>}

\* the answer the model gives when two sessions are open
SHARED_ANSWERS ==
    {Render(Answer(<<Item(K_title, Str(<<"J">>)),
                     Item(K_malayalam, Str(<<"d">>)),
                     Item(K_english, Str(<<"G">>)),
                     Item(K_alt, Str(<<"a">>)),
                     Item(K_confidence, Str(HIGH))>>))}

\* what the operator types into the form
UI_TITLES == {Str(<<>>)}
UI_ALT_TEXTS == {Str(<<>>), Str(<<" ">>), Str(<<"b">>)}

\* the script run saves the uploaded image: image.save(image_path)
SaveImage(i) ==
    IF uploaded_file[i] # "none" THEN uploaded_file[i] ELSE uploaded_image

\* the results, the form and the summary are shown
ResultsShown(i) ==
    /\ session_state[i].processing_complete
    /\ Truthy(session_state[i].processed_data)

\* the operator picks an image in the file uploader
UploadFile(i) ==
    /\ script[i] = "idle"
    /\ \E image \in IMAGES :
           /\ image # uploaded_file[i]
           /\ uploaded_file' = [uploaded_file EXCEPT ![i] = image]
           /\ uploaded_image' = image
    /\ sent' = [sent EXCEPT ![i] = NoSend]
    /\ UNCHANGED <<session_state, script>>

\* the operator removes the image from the file uploader
RemoveFile(i) ==
    /\ script[i] = "idle"
    /\ uploaded_file[i] # "none"
    /\ uploaded_file' = [uploaded_file EXCEPT ![i] = "none"]
    /\ sent' = [sent EXCEPT ![i] = NoSend]
    /\ UNCHANGED <<session_state, script, uploaded_image>>

\* "Process Image with AI" is pressed: the run saves the image and enters
\* the processing workflow
ClickProcess(i) ==
    /\ script[i] = "idle"
    /\ uploaded_file[i] # "none"
    /\ uploaded_image' = SaveImage(i)
    /\ script' = [script EXCEPT ![i] = "process"]
    /\ sent' = [sent EXCEPT ![i] = NoSend]
    /\ UNCHANGED <<uploaded_file, session_state>>

\* the image at image_path goes to the model
ModelInput(image) == [NoSend EXCEPT !.kind = "model", !.image = image]

\* the processing workflow: load_image(image_path), generate_content,
\* parse_and_format_gemini_output, store in the session state
Analyze(i, answers) ==
    /\ script[i] = "process"
    /\ \E answer \in answers :
           LET formatted_data_ == parse_and_format_gemini_output_st(answer)
           IN  session_state' =
                   IF formatted_data_ # Raised /\ Truthy(formatted_data_)
                   THEN [session_state EXCEPT
                             ![i].processed_data = formatted_data_,
                             ![i].processing_complete = TRUE]
                   ELSE session_state
    /\ sent' = [sent EXCEPT ![i] = ModelInput(uploaded_image)]
    /\ script' = [script EXCEPT ![i] = "idle"]
    /\ UNCHANGED <<uploaded_file, uploaded_image>>

\* processed_data.update({'title': ..., 'description': ..., 'alt_text': ...})
Update(processed, title, description, alt_text) ==
    Dict(SetItem(SetItem(SetItem(processed.kv, K_title, title),
                         K_description, description),
                 K_alt_text, alt_text))

\* "Save Changes" is pressed
SaveChanges(i, titles, alt_texts) ==
    /\ script[i] = "idle"
    /\ ResultsShown(i)
    /\ LET processed == session_state[i].processed_data
       IN  \E title \in {GetOr(processed, K_title, Str(<<>>))} \cup titles,
              alt_text \in {GetOr(processed, K_alt_text, Str(<<>>))}
                           \cup alt_texts :
               session_state' =
                   [session_state EXCEPT
                        ![i].processed_data =
                            Update(processed, title,
                                   GetOr(processed, K_description,
                                         Str(<<>>)),
                                   alt_text),
                        ![i].data_edited = TRUE]
    /\ uploaded_image' = SaveImage(i)
    /\ sent' = [sent EXCEPT ![i] = NoSend]
    /\ UNCHANGED <<uploaded_file, script>>

\* "Upload to Pinterest" is shown and pressed: the run saves the image; with
\* no credentials it reports an error, else it calls upload_to_pinterest
ClickUpload(i) ==
    /\ script[i] = "idle"
    /\ ResultsShown(i)
    /\ StreamlitGate(session_state[i].processed_data)
    /\ uploaded_image' = SaveImage(i)
    /\ \E credentials \in BOOLEAN :
           script' = [script EXCEPT
                          ![i] = IF credentials THEN "upload" ELSE "idle"]
    /\ sent' = [sent EXCEPT ![i] = NoSend]
    /\ UNCHANGED <<uploaded_file, session_state>>

\* the publish request with the image read from image_path
Pin(image, post, ok) ==
    [kind |-> "pin", image |-> image, title |-> Get(post, K_title),
     description |-> Get(post, K_description),
     alt_text |-> Get(post, K_alt_text), ok |-> ok]

\* upload_to_pinterest(str(image_path), st.session_state.processed_data,
\* ...) and, when it succeeds, the reset of the session state
Publish(i) ==
    /\ script[i] = "upload"
    /\ LET post == session_state[i].processed_data
       IN  IF AllRequired(post) /\ uploaded_file[i] # "none"
           THEN \E ok \in BOOLEAN :
                    /\ sent' = [sent EXCEPT
                                    ![i] = Pin(uploaded_image, post, ok)]
                    /\ session_state' =
                           IF ok
                           THEN [session_state EXCEPT
                                     ![i].processed_data = None,
                                     ![i].processing_complete = FALSE]
                           ELSE session_state
           ELSE UNCHANGED <<sent, session_state>>
    /\ script' = [script EXCEPT ![i] = "idle"]
    /\ UNCHANGED <<uploaded_file, uploaded_image>>

InitUi ==
    /\ UiIdle
    /\ SanIdle
    /\ PipeIdle
    /\ PinIdle
    /\ ParIdle

uiFrame == <<sanVars, pipeVars, pinVars, parVars>>

\* one session
NextUi ==
    \/ UploadFile(1) /\ UNCHANGED uiFrame
    \/ RemoveFile(1) /\ UNCHANGED uiFrame
    \/ ClickProcess(1) /\ UNCHANGED uiFrame
    \/ Analyze(1, UI_ANSWERS) /\ UNCHANGED uiFrame
    \/ SaveChanges(1, UI_TITLES, UI_ALT_TEXTS) /\ UNCHANGED uiFrame
    \/ ClickUpload(1) /\ UNCHANGED uiFrame
    \/ Publish(1) /\ UNCHANGED uiFrame

SpecUi == InitUi /\ [][NextUi]_vars

\* all the sessions, their script runs interleaved
NextShared ==
    \/ \E i \in SESSIONS : UploadFile(i) /\ UNCHANGED uiFrame
    \/ \E i \in SESSIONS : RemoveFile(i) /\ UNCHANGED uiFrame
    \/ \E i \in SESSIONS : ClickProcess(i) /\ UNCHANGED uiFrame
    \/ \E i \in SESSIONS : Analyze(i, SHARED_ANSWERS) /\ UNCHANGED uiFrame
    \/ \E i \in SESSIONS :
           SaveChanges(i, {}, {Str(<<"b">>)}) /\ UNCHANGED uiFrame
    \/ \E i \in SESSIONS : ClickUpload(i) /\ UNCHANGED uiFrame
    \/ \E i \in SESSIONS : Publish(i) /\ UNCHANGED uiFrame

SpecShared == InitUi /\ [][NextShared]_vars


----------------------------------------------------------------------------
(* Claims *)

RICHER == {"v1", "streamlit"}

NonEmptyResult == result # NoValue /\ result # EmptyDict

\* a recognised field of the decoded object is a string or absent
StringOrAbsent(key) == HasKey(parsed, key) => Get(parsed, key).t = "str"

\* C1: in version-1/app.py and streamlit.py, a decoded object whose
\* confidence_level is absent or null, its other recognised fields being
\* strings or absent, yields a non-empty post with confidence_level "low".
C1_MissingConfidenceDefaultsToLow ==
    (/\ variant \in RICHER
     /\ pc \in {"Formatted", "FormatFailed"}
     /\ IsDict(parsed)
     /\ Get(parsed, K_confidence) = None
     /\ \A i \in 1..Len(REQUIRED_KEYS) : StringOrAbsent(REQUIRED_KEYS[i]))
    => /\ result # EmptyDict
       /\ Get(result, K_confidence) = Str(LOW)

\* C2: no HTTP publish request is issued unless PinData was constructed
\* from the candidate record first, and the request carries the record
\* PinData accepted.
C2_NoRequestWithoutValidation ==
    \A i \in 1..Len(requests) :
        /\ pin_data # NoValue
        /\ requests[i].title = pin_data.title
        /\ requests[i].description = pin_data.description
        /\ requests[i].alt_text = pin_data.alt_text

\* the constraints of the validator a record violates
IsBlank(v) == v.t # "str" \/ strip(v.s) = <<>>

ViolatedConstraints(args, file) ==
    {f \in {"board_id", "title", "description", "alt_text", "access_token"} :
        IsBlank(args[f])}
    \cup (IF file # "file" THEN {"image_path"} ELSE {})
    \cup (IF args.tags.t = "list" /\ Len(args.tags.kv) > 20
          THEN {"too many tags"} ELSE {})
    \cup (IF args.tags.t = "list"
             /\ \E i \in 1..Len(args.tags.kv) : IsBlank(args.tags.kv[i].v)
          THEN {"blank tag"} ELSE {})

\* the constraints a validation error names
ReportedConstraints(errors) ==
    {IF e.loc # "(model)" THEN e.loc
     ELSE IF e.msg = MSG_TOO_MANY_TAGS THEN "too many tags" ELSE "blank tag" :
        e \in errors}

\* C3: the validation error PinData raises enumerates every constraint the
\* record violates.
C3_ErrorEnumeratesEveryViolation ==
    pin_errors # {} =>
        ReportedConstraints(pin_errors)
            = ViolatedConstraints(pin_args, image_file)

\* C4: parse_json_safely returns a mapping or None, never a value of
\* another type.
C4_ParserReturnsMappingOrNone ==
    parsed # NoValue => parsed.t \in {"dict", "None"}

FIVE_KEYS == {K_title, K_malayalam, K_english, K_alt, K_confidence}

\* C5: in every copy, the projection of a decoded object has exactly the
\* five RequiredFieldSet keys; a present key keeps its value and an absent
\* one maps to null.
C5_ProjectionHasTheFiveKeys ==
    (data # NoValue /\ IsDict(parsed)) =>
        /\ Keys(data) = FIVE_KEYS
        /\ \A key \in FIVE_KEYS : Get(data, key) = Get(parsed, key)

SanBothDone == san_pc = {"plain", "wrapped"}

\* the trimmed text begins or ends with a fence marker
FencedAtAnEnd(t) ==
    \E i \in 1..Len(MARKERS) :
        startswith(strip(t), MARKERS[i]) \/ endswith(strip(t), MARKERS[i])

\* C6 as claimed: for every text, sanitizing the text wrapped in a fence
\* gives the same string as sanitizing the text itself.
C6_WrappedEqualsUnwrapped ==
    SanBothDone => san_wrapped = san_plain

\* C6 as amended: ... for every text whose trimmed form neither begins nor
\* ends with a fence marker.
C6_WrappedEqualsUnwrappedUnfenced ==
    (SanBothDone /\ ~FencedAtAnEnd(san_text)) => san_wrapped = san_plain

C6_Witness ==
    /\ SanBothDone
    /\ ~FencedAtAnEnd(san_text)
    /\ san_plain # <<>>
    /\ san_plain # strip(san_text)
    /\ san_wrapped = san_plain

EXAMPLE_ONE_LINE ==
    <<"{", "\"", "t", "i", "t", "l", "e", "\"", ":", " ", "\"", "J", "o",
      "h", "n", " ", "3", ":", "1", "6", "\"", "}">>
EXAMPLE_TWO_LINES ==
    <<"{", "\"", "t", "i", "t", "l", "e", "\"", ":", " ", "\"", "J", "o",
      "h", "n", " ", "3", ":", "1", "6", "\"", "\n", "}">>
EXAMPLE_TITLE ==
    <<"J", "o", "h", "n", " ", "3", ":", "1", "6">>

\* C7 as claimed: on the example input the sanitizer returns the object on
\* one line, and the parser returns {title: "John 3:16"}.
C7_ExampleCleansToOneLine ==
    (raw = EXAMPLE_RAW /\ parsed # NoValue) =>
        /\ cleaned = EXAMPLE_ONE_LINE
        /\ parsed = Dict(<<Item(K_title, Str(EXAMPLE_TITLE))>>)

\* C7 as amended: on the example input the sanitizer removes the comma and
\* keeps the newline before the closing brace, and the parser returns
\* {title: "John 3:16"}.
C7_ExampleKeepsNewline ==
    (raw = EXAMPLE_RAW /\ parsed # NoValue) =>
        /\ cleaned = EXAMPLE_TWO_LINES
        /\ parsed = Dict(<<Item(K_title, Str(EXAMPLE_TITLE))>>)

C7_Witness == raw = EXAMPLE_RAW /\ pc = "Parsed"

LEVELS ==
    {<<"l", "o", "w">>, <<"m", "e", "d", "i", "u", "m">>,
     <<"h", "i", "g", "h">>}

\* C8 as claimed: in version-1/app.py and streamlit.py every non-empty post
\* has a confidence_level among low, medium, high.
C8_ConfidenceIsALevel ==
    (variant \in RICHER /\ NonEmptyResult) =>
        Get(result, K_confidence).s \in LEVELS

\* C8 as amended: ... has as confidence_level the lower-cased string of the
\* decoded object (low when the decoded value is not an object); it is
\* among low, medium, high only when that string is.
C8_ConfidenceIsLoweredSource ==
    (variant \in RICHER /\ NonEmptyResult) =>
        IF IsDict(parsed)
        THEN /\ Get(parsed, K_confidence).t = "str"
             /\ Get(result, K_confidence)
                    = Str(lower(Get(parsed, K_confidence).s))
        ELSE Get(result, K_confidence) = Str(LOW)

C8_Witness ==
    /\ variant \in RICHER /\ pc = "Formatted"
    /\ Get(parsed, K_confidence) = Str(<<"H", "I", "G", "H">>)
    /\ Get(result, K_confidence) = Str(<<"h", "i", "g", "h">>)

NonEmptyString(v) == v.t = "str" /\ v.s # <<>>

\* C9: the title and the description of every non-empty record returned
\* are non-empty strings, and its alt_text is a string.
C9_TitleAndDescriptionNonEmpty ==
    NonEmptyResult =>
        /\ NonEmptyString(Get(result, K_title))
        /\ NonEmptyString(Get(result, K_description))
        /\ Get(result, K_alt_text).t = "str"

C9_Witness ==
    /\ pc = "Formatted"
    /\ Get(parsed, K_title) = Str(<<" ">>)
    /\ Get(parsed, K_malayalam) = Str(<<" ">>)
    /\ Get(parsed, K_english).t = "str"
    /\ Get(result, K_alt_text) = Str(<<>>)

MissingVerse(v) == v = None \/ v = Str(<<>>)

\* C10: the description is the default sentence when either verse is
\* absent, null or empty; when both are non-empty strings it is
\* trim(m) + two newlines + "English: " + trim(e) + two newlines + the
\* call-to-action sentence.
C10_DescriptionRule ==
    NonEmptyResult =>
        LET m == Get(data, K_malayalam)
            e == Get(data, K_english)
        IN  /\ (MissingVerse(m) \/ MissingVerse(e)) =>
                   Get(result, K_description) = Str(DEFAULT_DESCRIPTION)
            /\ (NonEmptyString(m) /\ NonEmptyString(e)) =>
                   Get(result, K_description)
                       = Str(strip(m.s) \o <<"\n", "\n">>
                             \o <<"E", "n", "g", "l", "i", "s", "h", ":", " ">>
                             \o strip(e.s) \o <<"\n", "\n">>
                             \o DEFAULT_DESCRIPTION)

C10_Witness ==
    /\ pc = "Formatted"
    /\ Get(data, K_malayalam) = Str(<<"d", "a", "i", "\n">>)
    /\ Get(data, K_english) = Str(<<" ", "G", "o", "d">>)

\* the sanitised text of a non-empty raw output does not decode as JSON
Undecodable ==
    raw # <<>> /\ pc \notin {"Start", "Sanitized"} /\ ~json_loads(cleaned).ok

\* C11: when the sanitised text does not decode as JSON,
\* parse_and_format_gemini_output returns the empty mapping, the caller
\* turns it into None (skips the image), and upload_to_pinterest is never
\* called.
C11_UndecodableIsSkipped ==
    Undecodable =>
        /\ parsed = None
        /\ result = EmptyDict
        /\ pc \in {"ParseFailed", "Skipped"}
        /\ (pc = "Skipped" /\ variant # "streamlit") => formatted_data = None
        /\ pin_pc = "Idle"
        /\ requests = <<>>

C11_Witness ==
    /\ Undecodable
    /\ pc = "Skipped"
    /\ cleaned # <<>>
    /\ formatted_data = None

\* C12: when the sanitised text decodes to a value that is not a mapping,
\* the pipeline returns the empty result, never a post built from defaults.
C12_NonMappingGivesEmptyResult ==
    (parsed # NoValue /\ ~IsDict(parsed) /\ result # NoValue) =>
        result = EmptyDict

NonString(v) == Truthy(v) /\ v.t # "str"

\* formatting has run on a decoded object one of whose recognised fields
\* holds a truthy non-string value
FormattedNonString ==
    /\ IsDict(parsed) /\ data # NoValue /\ result # NoValue
    /\ \E key \in Keys(data) : NonString(Get(data, key))

\* a string method is called on a value that is not a string
StringMethodFails ==
    \/ NonString(Get(data, K_title))
    \/ NonString(Get(data, K_alt))
    \/ /\ Truthy(Get(data, K_malayalam)) /\ Truthy(Get(data, K_english))
       /\ \/ Get(data, K_malayalam).t # "str"
          \/ Get(data, K_english).t # "str"
    \/ variant \in RICHER /\ Get(data, K_confidence).t # "str"

\* C13 as claimed: whenever a recognised field of the decoded object holds
\* a truthy non-string value, the empty mapping is returned.
C13_NonStringGivesEmptyResult ==
    FormattedNonString => result = EmptyDict

\* C13 as amended: ... the empty mapping is returned exactly when a string
\* method is called on a non-string: for a title or alternative text, for
\* a confidence_level in the richer variants, and for a verse only when the
\* other verse is truthy too; otherwise a post is returned.  No exception
\* reaches the caller either way.
C13_EmptyResultWhenStringMethodFails ==
    FormattedNonString =>
        /\ result.t = "dict"
        /\ result = EmptyDict <=> StringMethodFails

C13_Witness ==
    /\ FormattedNonString
    /\ pc = "FormatFailed"
    /\ Get(data, K_title).t = "str"
    /\ NonString(Get(data, K_alt))

\* PinData(...) has been evaluated on the arguments of create_pin
Constructed == pin_args # NoValue /\ pin_pc # "Construct"

FIELD_CONSTRAINTS ==
    {"board_id", "title", "description", "alt_text", "access_token",
     "image_path"}

\* what the caller of create_pin gets for a rejected record: None, which
\* upload_to_pinterest of main.py turns into False
RejectedReturn == IF caller = "api" THEN None ELSE Bool(FALSE)

\* C14: for every create_pin call whose record violates a validator
\* constraint, a validation error is raised that names violated constraints
\* only, the image path among them whenever the image is not a readable
\* file; upload_pin is not invoked, no request is sent, and create_pin
\* returns None.
C14_RejectedRecordSendsNothing ==
    (Constructed /\ ViolatedConstraints(pin_args, image_file) # {}) =>
        /\ pin_errors # {}
        /\ ReportedConstraints(pin_errors)
               \subseteq ViolatedConstraints(pin_args, image_file)
        /\ image_file # "file" => "image_path" \in ReportedConstraints(pin_errors)
        /\ pin_pc = "Done"
        /\ pin_data = NoValue
        /\ requests = <<>>
        /\ returned = RejectedReturn

C14_Witness ==
    /\ Constructed
    /\ caller = "api"
    /\ image_file = "missing"
    /\ pin_errors = {Error("image_path", MSG_NOT_FOUND)}
    /\ returned = None

REQUIRED_STRINGS ==
    {"board_id", "title", "description", "alt_text", "access_token"}

\* C15: PinData rejects every record in which one of board_id, title,
\* description, alt_text, access_token is empty or whitespace-only, and in
\* every accepted record each of the five equals its input trimmed.
C15_RequiredFieldsNonBlankAndTrimmed ==
    Constructed =>
        /\ \A f \in REQUIRED_STRINGS :
               IsBlank(pin_args[f]) =>
                   /\ pin_data = NoValue
                   /\ f \in ReportedConstraints(pin_errors)
        /\ pin_data # NoValue =>
               \A f \in REQUIRED_STRINGS :
                   /\ pin_data[f] = Str(strip(pin_args[f].s))
                   /\ pin_data[f].s # <<>>

C15_Witness ==
    /\ Constructed
    /\ pin_data # NoValue
    /\ pin_args.title = Str(<<"J", " ">>)
    /\ pin_data.title = Str(<<"J">>)

TagCount == IF pin_args.tags.t = "list" THEN Len(pin_args.tags.kv) ELSE 0

\* C16: with the other fields valid, PinData rejects a tag list of more
\* than 20 entries with the too-many-tags violation, rejects a list holding
\* a blank tag, and accepts None, the empty list and every list of at most
\* 20 non-blank tags.
C16_TagRule ==
    (/\ Constructed
     /\ ViolatedConstraints(pin_args, image_file) \cap FIELD_CONSTRAINTS = {})
    => /\ TagCount > 20 =>
              /\ pin_data = NoValue
              /\ pin_errors = {Error("(model)", MSG_TOO_MANY_TAGS)}
       /\ (TagCount <= 20
           /\ "blank tag" \in ViolatedConstraints(pin_args, image_file)) =>
              /\ pin_data = NoValue
              /\ pin_errors = {Error("(model)", MSG_EMPTY_TAG)}
       /\ (TagCount <= 20
           /\ "blank tag" \notin ViolatedConstraints(pin_args, image_file)) =>
              /\ pin_data # NoValue
              /\ pin_errors = {}

C16_Witness ==
    /\ Constructed
    /\ TagCount = 20
    /\ pin_data # NoValue
    /\ requests # <<>>

\* the stage transitions of the state machine as claimed
CLAIMED_EDGES ==
    {<<"Start", "Sanitized">>, <<"Sanitized", "Parsed">>,
     <<"Sanitized", "ParseFailed">>, <<"Parsed", "Projected">>,
     <<"Projected", "Formatted">>, <<"Projected", "FormatFailed">>}

\* the early returns
EARLY_RETURNS == {<<"Start", "Rejected">>, <<"Parsed", "Rejected">>}

STAGE_STATES ==
    {"Start", "Sanitized", "Parsed", "ParseFailed", "Rejected", "Projected",
     "Formatted", "FormatFailed"}

Returns == pc \in {"Formatted", "FormatFailed"}

\* a step of the call moves along an edge, and nothing of the call changes
\* without such a move
MovesAlong(edges) ==
    /\ (pc' # pc /\ pc' \in STAGE_STATES) => <<pc, pc'>> \in edges
    /\ pc' = pc => UNCHANGED pipeVars

\* C17 as claimed: the call moves Start, Sanitized, Parsed or ParseFailed,
\* Projected, Formatted only, no stage runs twice, and every input whose
\* sanitised text decodes goes on to projection and formatting.
C17_OnlyDecodeFailureStopsEarly ==
    /\ [][MovesAlong(CLAIMED_EDGES)]_vars
    /\ (pc = "Parsed") ~> Returns

\* C17 as amended: the call moves along these edges or takes an early
\* return, on an empty raw output before sanitising or on a falsy decoded
\* value before projection; no stage runs twice; every input whose
\* sanitised text decodes to a truthy value goes on to projection and
\* formatting.
C17_StageOrder ==
    /\ [][/\ MovesAlong(CLAIMED_EDGES \cup EARLY_RETURNS)
          /\ (pc = "Start" /\ pc' = "Rejected") => raw = <<>>
          /\ (pc = "Parsed" /\ pc' = "Rejected") => ~Truthy(parsed)]_vars
    /\ (pc = "Start" /\ raw # <<>>) ~> (pc \in {"Parsed", "ParseFailed"})
    /\ (pc = "Parsed" /\ Truthy(parsed)) ~> Returns

C17_Witness ==
    /\ pc = "Rejected"
    /\ json_loads(cleaned).ok
    /\ parsed = EmptyDict
    /\ data = NoValue

\* C18: for every decoded JSON object in which all recognised fields are
\* absent or null, the pipeline returns the empty result.
C18_AllAbsentGivesEmptyResult ==
    (/\ IsDict(parsed)
     /\ result # NoValue
     /\ \A key \in FIVE_KEYS : Get(parsed, key) = None)
    => result = EmptyDict

\* what a call returns when it runs alone
RunAlone(v, output_str) ==
    CASE v = "formatter" -> parse_and_format_gemini_output(output_str)
      [] v = "v1" -> parse_and_format_gemini_output_v1(output_str)
      [] OTHER -> parse_and_format_gemini_output_st(output_str)

\* C19: in every interleaving of concurrent calls of
\* parse_and_format_gemini_output, each call returns what it returns when
\* run alone, and what a call has computed depends on its own input only.
C19_CallsDoNotInterfere ==
    \A i \in DOMAIN calls :
        /\ calls[i].pc \notin {"Start", "Rejected"} =>
               calls[i].cleaned_str = clean_json_string(calls[i].output_str)
        /\ calls[i].result # NoValue =>
               calls[i].result = RunAlone(variant, calls[i].output_str)

C19_Witness ==
    /\ calls # <<>>
    /\ calls[1].pc = "Projected"
    /\ calls[2].pc = "Formatted"
    /\ calls[1].output_str # calls[2].output_str
    /\ stdout = <<>>

\* the text holds no comma-newline-closing-brace and no
\* comma-newline-closing-bracket
NoTrailingComma(t) ==
    /\ find(t, <<",", "\n", "}">>, 1) = 0
    /\ find(t, <<",", "\n", "]">>, 1) = 0

\* the sanitizer has run on a text without fence and trailing comma
CleanedPlainText ==
    /\ "plain" \in san_pc
    /\ ~FencedAtAnEnd(san_text)
    /\ NoTrailingComma(san_text)

\* C20 as claimed: clean_json_string returns the empty string for the empty
\* input, and an input without fence marker at either end and without
\* trailing comma character for character.
C20_PlainTextVerbatim ==
    /\ ("plain" \in san_pc /\ san_text = <<>>) => san_plain = <<>>
    /\ CleanedPlainText => san_plain = san_text

\* C20 as amended: ... and an input whose trimmed form has no fence marker
\* at either end and which holds no trailing comma with its leading and
\* trailing whitespace removed, the rest character for character.
C20_PlainTextTrimmed ==
    /\ ("plain" \in san_pc /\ san_text = <<>>) => san_plain = <<>>
    /\ CleanedPlainText => san_plain = strip(san_text)

C20_Witness ==
    /\ CleanedPlainText
    /\ san_plain # <<>>
    /\ san_plain # san_text
    /\ Len(san_plain) > 1

\* C21 as claimed: clean_json_string is idempotent on every string.
C21_CleanIsIdempotent ==
    "again" \in san_pc => san_again = san_plain

\* C21 as amended: clean_json_string is idempotent on every string whose
\* sanitised form has no whitespace and no fence marker at either end and
\* holds no trailing comma; on nested fences, on repeated trailing commas
\* and on a trailing comma that opens the text the second pass removes
\* one more layer.
C21_CleanIsIdempotentOnCleanOutput ==
    (/\ "again" \in san_pc
     /\ san_plain = strip(san_plain)
     /\ ~FencedAtAnEnd(san_plain)
     /\ NoTrailingComma(san_plain))
    => san_again = san_plain

C21_Witness ==
    /\ "again" \in san_pc
    /\ FencedAtAnEnd(san_text)
    /\ ~NoTrailingComma(san_text)
    /\ san_plain # <<>>
    /\ ~FencedAtAnEnd(san_plain)
    /\ NoTrailingComma(san_plain)
    /\ san_again = san_plain

\* C22: in main() of main.py, which formats with formatter.py, the
\* confidence check on a non-empty formatted result either goes on to
\* upload_to_pinterest or returns without uploading; it never ends in an
\* exception.
C22_ConfidenceCheckNeverRaises ==
    (variant = "formatter" /\ NonEmptyResult) => pc # "Crashed"

\* the title, description and alt_text of a publish request
PublishedTexts(request) ==
    {request.title, request.description, request.alt_text}

\* C23: in every variant no publish request carries an empty title,
\* description or alt_text, and a post whose alt_text fell back to the
\* empty string is not published.
C23_NoEmptyFieldPublished ==
    /\ \A i \in 1..Len(requests) :
           \A text \in PublishedTexts(requests[i]) :
               text.t = "str" /\ text.s # <<>>
    /\ (/\ caller \in {"main", "v1", "streamlit"}
        /\ Get(formatted_data, K_alt_text) = Str(<<>>))
       => requests = <<>>

C23_Witness ==
    /\ caller = "v1"
    /\ image_file = "file"
    /\ Truthy(env.board) /\ Truthy(env.token)
    /\ Get(formatted_data, K_alt_text) = Str(<<>>)
    /\ Get(formatted_data, K_title) # Str(<<>>)
    /\ Get(formatted_data, K_description) # Str(<<>>)
    /\ pin_pc = "Done"
    /\ returned = Bool(FALSE)
    /\ requests = <<>>

\* session i's script run issues a publish request in this step
Publishes(i) == sent[i].kind # "pin" /\ sent'[i].kind = "pin"

\* the texts of a stored post
STORED_TEXTS == {K_title, K_description, K_alt_text}

C26_SessionSendsItsOwnImage ==
    \A i \in SESSIONS :
        sent[i].kind \in {"model", "pin"} => sent[i].image = uploaded_file[i]

\* the record the formatter.py copy returns carries the texts of record post
SameTexts(post, formatted) ==
    /\ formatted.t = "dict"
    /\ Keys(formatted) = STORED_TEXTS
    /\ Keys(post) = STORED_TEXTS \cup {K_confidence}
    /\ \A key \in STORED_TEXTS : Get(formatted, key) = Get(post, key)

\* C25: on every raw input the streamlit.py copy of
\* parse_and_format_gemini_output returns what the version-1/app.py copy
\* returns, and whenever that result is non-empty the formatter.py copy
\* returns a record with the same title, description and alt_text and
\* without the confidence_level key.
C25_CopiesAgree ==
    LET post == parse_and_format_gemini_output_v1(raw)
    IN  /\ parse_and_format_gemini_output_st(raw) = post
        /\ post # EmptyDict =>
               SameTexts(post, parse_and_format_gemini_output(raw))

C25_Witness ==
    /\ variant = "streamlit"
    /\ pc = "Formatted"
    /\ result # EmptyDict
    /\ result = parse_and_format_gemini_output_v1(raw)
    /\ Get(result, K_alt_text) # Str(<<>>)
    /\ Get(result, K_confidence) # Str(LOW)
    /\ SameTexts(result, parse_and_format_gemini_output(raw))
====
